---- MODULE Spec2Model ----
(***************************************************************************)
(* Model of scrap.py: the catalog lister, the song extractor, the lyric    *)
(* normalizers and the two exports (sequential and thread pool).           *)
(*                                                                         *)
(* Strings whose characters matter (lyrics, markup) are sequences of       *)
(* one-character strings; opaque strings (URLs, titles) are TLA+ strings.  *)
(***************************************************************************)
EXTENDS Integers, Sequences, FiniteSets, TLC

(***************************************************************************)
(* Bounds                                                                  *)
(***************************************************************************)
MaxRows == 3        \* rows of the catalog page
PoolSize == 2       \* worker threads of the ThreadPoolExecutor
MaxTokens == 6      \* tokens (characters, <br/>, </p>) of a lyrics div

(***************************************************************************)
(* Characters and regular expression classes (module re, str patterns)     *)
(***************************************************************************)
Upper == {"A","B","C","D","E","F","G","H","I","J","K","L","M",
          "N","O","P","Q","R","S","T","U","V","W","X","Y","Z"}
Lower == {"a","b","c","d","e","f","g","h","i","j","k","l","m",
          "n","o","p","q","r","s","t","u","v","w","x","y","z"}
Digit == {"0","1","2","3","4","5","6","7","8","9"}

\* [A-Z]
IsUpper(c) == c \in Upper

\* \w
IsWord(c) == c \in Upper \cup Lower \cup Digit \cup {"_"}

\* The <br/> element among the children of a <p>.
BR == "<br/>"

\* The characters the bounded paragraphs are built from.
Alphabet == {"a", "B", " ", "."}

(***************************************************************************)
(* Sequence helpers                                                        *)
(***************************************************************************)
RECURSIVE Concat(_)
Concat(ss) == IF ss = << >> THEN << >> ELSE Head(ss) \o Concat(Tail(ss))

\* s[k:] of Python, 0-based k
Drop(s, k) == IF k >= Len(s) THEN << >> ELSE SubSeq(s, k + 1, Len(s))

\* s.startswith(pat)
StartsWith(s, pat) == /\ Len(s) >= Len(pat)
                      /\ SubSeq(s, 1, Len(pat)) = pat

\* str.replace(old, new): leftmost non-overlapping occurrences, old non-empty
RECURSIVE Replace(_, _, _)
Replace(s, old, new) ==
    IF s = << >> THEN << >>
    ELSE IF StartsWith(s, old) THEN new \o Replace(Drop(s, Len(old)), old, new)
    ELSE <<Head(s)>> \o Replace(Tail(s), old, new)

\* lyric[:-1]: the trim taking one character
TrimLastOne(s) == IF Len(s) <= 1 THEN << >> ELSE SubSeq(s, 1, Len(s) - 1)

\* lyric[:-2]
TrimLastTwo(s) == IF Len(s) <= 2 THEN << >> ELSE SubSeq(s, 1, Len(s) - 2)

SeqsUpTo(S, n) == UNION {[1..k -> S] : k \in 0..n}

(***************************************************************************)
(* BeautifulSoup nodes: a <p> element is the sequence of its children,     *)
(* each a character of a text node or the element BR.                      *)
(***************************************************************************)
\* parrafo.text: the text nodes joined, elements contribute nothing
Text(parrafo) == SelectSeq(parrafo, LAMBDA c : c # BR)

\* str(child): html.parser serialises a <br> element as <br/>
ChildMarkup(c) == IF c = BR THEN <<"<", "b", "r", "/", ">">> ELSE <<c>>

\* str(parrafo)
Markup(parrafo) ==
    <<"<", "p", ">">>
    \o Concat([i \in 1..Len(parrafo) |-> ChildMarkup(parrafo[i])])
    \o <<"<", "/", "p", ">">>

(***************************************************************************)
(* The regular expressions of the flattened mode                           *)
(***************************************************************************)
\* \b at the position in front of s[i] (i = Len(s) + 1: the end of s)
AtWordBoundary(s, i) ==
    LET before == i > 1 /\ IsWord(s[i - 1])
        after == i <= Len(s) /\ IsWord(s[i])
    IN before # after

\* r"([A-Z])" matches at s[i]: the pattern without its \B
CamelMatchNoBoundary(s, i) == /\ i <= Len(s)
                              /\ IsUpper(s[i])

\* r"\B([A-Z])" matches at s[i]
CamelMatch(s, i) == /\ i <= Len(s)
                    /\ IsUpper(s[i])
                    /\ ~AtWordBoundary(s, i)

\* re.sub(r"\B([A-Z])", r" \1", s), scanning from s[i]
RECURSIVE SubCamelFrom(_, _)
SubCamelFrom(s, i) ==
    IF i > Len(s) THEN << >>
    ELSE IF CamelMatch(s, i) THEN <<" ", s[i]>> \o SubCamelFrom(s, i + 1)
    ELSE <<s[i]>> \o SubCamelFrom(s, i + 1)

SubCamel(s) == SubCamelFrom(s, 1)

\* the rest of s after its leading spaces
RECURSIVE SkipSpaces(_)
SkipSpaces(s) ==
    IF s # << >> /\ Head(s) = " " THEN SkipSpaces(Tail(s)) ELSE s

\* re.sub(' +', ' ', s)
RECURSIVE SubSpaces(_)
SubSpaces(s) ==
    IF s = << >> THEN << >>
    ELSE IF Head(s) = " " THEN <<" ">> \o SubSpaces(SkipSpaces(Tail(s)))
    ELSE <<Head(s)>> \o SubSpaces(Tail(s))

(***************************************************************************)
(* Loop bodies of get_lyrics_from_div and get_lyrics_from_url              *)
(***************************************************************************)
\* the five replace calls and the += of the breaklines loop (both functions)
BreaklinesBody(lyric, parrafo) ==
    LET t0 == Markup(parrafo)
        t1 == Replace(t0, <<"<", "b", "r", ">">>, <<"\n">>)
        t2 == Replace(t1, <<"<", "b", "r", "/", ">">>, <<"\n">>)
        t3 == Replace(t2, <<"<", "/", "b", "r", ">">>, << >>)
        t4 == Replace(t3, <<"<", "p", ">">>, << >>)
        t5 == Replace(t4, <<"<", "/", "p", ">">>, <<"\n">>)
    IN lyric \o t5 \o <<"\n">>

\* the flattened loop body without its re.sub(' +', ' ', lyric)
FlattenDivBodyNoSub(lyric, parrafo) ==
    lyric \o SubCamel(Text(parrafo)) \o <<" ">>

\* get_lyrics_from_div, flattened loop body
FlattenDivBody(lyric, parrafo) ==
    SubSpaces(lyric \o SubCamel(Text(parrafo)) \o <<" ">>)

\* get_lyrics_from_url, flattened loop body
FlattenUrlBody(lyric, parrafo) ==
    SubSpaces(lyric \o SubCamel(Text(parrafo)) \o <<" ">>) \o <<" ">>

\* get_lyrics_from_div(div, breaklines) as a function of div.find_all('p')
RECURSIVE DivLoop(_, _, _)
DivLoop(lyric, parrafos, breaklines) ==
    IF parrafos = << >> THEN lyric
    ELSE DivLoop(IF breaklines THEN BreaklinesBody(lyric, Head(parrafos))
                 ELSE FlattenDivBody(lyric, Head(parrafos)),
                 Tail(parrafos), breaklines)

get_lyrics_from_div(parrafos, breaklines) ==
    IF breaklines THEN TrimLastTwo(DivLoop(<< >>, parrafos, TRUE))
    ELSE DivLoop(<< >>, parrafos, FALSE)

(***************************************************************************)
(* State                                                                   *)
(***************************************************************************)
VARIABLES
    rows,        \* the <li class="cnt-list-row"> items of the catalog page
    web,         \* what each song URL serves
    seqPc,       \* scrap_songs_concurrently: position of the caller
    seqUrls,     \* songs_urls
    seqAcc,      \* the list the comprehension of line 181 is building
    seqInfo,     \* songs_info, << >> while unbound, else <<list>>
    seqFile,     \* the output file of the sequential export
    seqRet,      \* the returned count, << >> while none
    seqErr,      \* the exception that left the function, << >> while none
    thrPc,       \* scrap_songs_threading: position of the orchestrating thread
    thrUrls,     \* songs_urls
    futState,    \* state of the future of each position
    futOutcome,  \* what get_song_info did in the task of each position
    queue,       \* the executor's work queue (positions, FIFO)
    thrK,        \* next position to submit, then next position to collect
    thrAcc,      \* the list the comprehension of line 211 is building
    thrInfo,     \* songs_info, << >> while unbound, else <<list>>
    thrFile,     \* the output file of the thread-pool export
    thrRet,      \* the returned count, << >> while none
    thrErr,      \* the exception that left the function, << >> while none
    poolShut,    \* the executor has shut down and joined its threads
    doneOrder,   \* history: positions in the order their tasks ended
    parrafos,    \* normalizer: div.find_all('p')
    breaklines,  \* normalizer: the breaklines argument
    fn,          \* normalizer: "div" or "url", the function that runs
    lyric,       \* normalizer: the local lyric
    idx,         \* normalizer: next paragraph of the for loop
    lpc          \* normalizer: "loop" or "returned"

exportVars == <<rows, web, seqPc, seqUrls, seqAcc, seqInfo, seqFile, seqRet,
                seqErr, thrPc, thrUrls, futState, futOutcome, queue, thrK,
                thrAcc, thrInfo, thrFile, thrRet, thrErr, poolShut, doneOrder>>

lyricVars == <<parrafos, breaklines, fn, lyric, idx, lpc>>

vars == <<exportVars, lyricVars>>

(***************************************************************************)
(* The site                                                                *)
(***************************************************************************)
SongURLs == {"u1", "u2"}

\* Python's None, as returned by Tag.get for an absent attribute
Null == "None"

\* "ok": title and lyrics div present; "notitle": the cnt-head_title div is
\* absent; "nolyrics": the cnt-letra div is absent; "down": requests.get
\* raises
PageKinds == {"ok", "notitle", "nolyrics", "down"}

\* a catalog row with or without the data-shareurl attribute
Rows == [class : {"cnt-list-row"}, shareurl : SongURLs]
            \cup [class : {"cnt-list-row"}]

\* the <h1> text of a song page
TitleOf(url) == IF url = "u1" THEN "Song one" ELSE "Song two"

\* the <p> elements of the cnt-letra div of a song page
ParrafosOf(url) == IF url = "u1" THEN << <<"a", "B">> >>
                   ELSE << <<"B", BR, "B">>, <<"a", " ">> >>

\* previous content of an output file, and its state before any export
StaleRecord == [name |-> "stale", lyrics |-> <<"x">>, url |-> "u0"]
OldFile == [opens |-> 0, content |-> <<StaleRecord>>]

NoRecord == [name |-> "", lyrics |-> << >>, url |-> ""]

(***************************************************************************)
(* get_songs_list and get_song_info                                        *)
(***************************************************************************)
\* song.get("data-shareurl")
GetShareUrl(row) == IF "shareurl" \in DOMAIN row THEN row.shareurl ELSE Null

\* a comprehension that leaves out the rows without the attribute
get_songs_list_skipping(items) ==
    LET with == SelectSeq(items, LAMBDA r : "shareurl" \in DOMAIN r)
    IN [i \in 1..Len(with) |-> with[i].shareurl]

\* the list comprehension of line 31
get_songs_list(items) == [i \in 1..Len(items) |-> GetShareUrl(items[i])]

\* get_song_info(song_url): the exception it raises and the line raising
\* it, or the dictionary it returns
get_song_info(song_url) ==
    IF song_url = Null
    THEN [exc |-> "MissingSchema", line |-> 133, value |-> NoRecord]
    ELSE IF web[song_url] = "down"
    THEN [exc |-> "ConnectionError", line |-> 133, value |-> NoRecord]
    ELSE IF web[song_url] = "notitle"
    THEN [exc |-> "AttributeError", line |-> 137, value |-> NoRecord]
    ELSE IF web[song_url] = "nolyrics"
    THEN [exc |-> "AttributeError", line |-> 141, value |-> NoRecord]
    ELSE [exc |-> "", line |-> 0,
          value |-> [name |-> TitleOf(song_url),
                     lyrics |-> get_lyrics_from_div(ParrafosOf(song_url), FALSE),
                     url |-> song_url]]

NoOutcome == [exc |-> "", line |-> 0, value |-> NoRecord]

\* open(..., "w") and json.dump(songs_info, fp, indent=4)
WriteFile(file, songs_info) ==
    [opens |-> file.opens + 1, content |-> songs_info]

(***************************************************************************)
(* scrap_songs_concurrently (the sequential export)                        *)
(***************************************************************************)
\* line 180
SeqList ==
    /\ seqPc = "list"
    /\ seqUrls' = get_songs_list(rows)
    /\ seqPc' = "collect"
    /\ UNCHANGED <<rows, web, seqAcc, seqInfo, seqFile, seqRet, seqErr>>

\* an iteration that puts the new dictionary in front of the list
SeqCollectInFront ==
    /\ seqPc = "collect"
    /\ Len(seqAcc) < Len(seqUrls)
    /\ LET o == get_song_info(seqUrls[Len(seqAcc) + 1])
       IN IF o.exc = ""
          THEN /\ seqAcc' = <<o.value>> \o seqAcc
               /\ UNCHANGED <<seqPc, seqErr>>
          ELSE /\ seqAcc' = << >>
               /\ seqErr' = <<o>>
               /\ seqPc' = "failed"
    /\ UNCHANGED <<rows, web, seqUrls, seqInfo, seqFile, seqRet>>

\* line 181, one iteration of the comprehension
SeqCollect ==
    /\ seqPc = "collect"
    /\ Len(seqAcc) < Len(seqUrls)
    /\ LET o == get_song_info(seqUrls[Len(seqAcc) + 1])
       IN IF o.exc = ""
          THEN /\ seqAcc' = Append(seqAcc, o.value)
               /\ UNCHANGED <<seqPc, seqErr>>
          ELSE /\ seqAcc' = << >>
               /\ seqErr' = <<o>>
               /\ seqPc' = "failed"
    /\ UNCHANGED <<rows, web, seqUrls, seqInfo, seqFile, seqRet>>

\* lines 181 (binding songs_info) to 186
SeqWrite ==
    /\ seqPc = "collect"
    /\ Len(seqAcc) = Len(seqUrls)
    /\ seqInfo' = <<seqAcc>>
    /\ seqFile' = WriteFile(seqFile, seqAcc)
    /\ seqRet' = <<Len(seqAcc)>>
    /\ seqPc' = "done"
    /\ UNCHANGED <<rows, web, seqUrls, seqAcc, seqErr>>

seqVars == <<seqPc, seqUrls, seqAcc, seqInfo, seqFile, seqRet, seqErr>>

(***************************************************************************)
(* scrap_songs_threading (the thread-pool export)                          *)
(***************************************************************************)
thrVars == <<thrPc, thrUrls, futState, futOutcome, queue, thrK, thrAcc,
             thrInfo, thrFile, thrRet, thrErr, poolShut, doneOrder>>

Running == {i \in DOMAIN futState : futState[i] = "running"}

\* line 202
ThrList ==
    /\ thrPc = "list"
    /\ LET urls == get_songs_list(rows)
       IN /\ thrUrls' = urls
          /\ futState' = [i \in 1..Len(urls) |-> "unsubmitted"]
          /\ futOutcome' = [i \in 1..Len(urls) |-> NoOutcome]
          /\ thrPc' = IF Len(urls) = 0 THEN "collect" ELSE "submit"
    /\ thrK' = 1
    /\ UNCHANGED <<rows, web, queue, thrAcc, thrInfo, thrFile, thrRet,
                   thrErr, poolShut, doneOrder>>

\* line 209: Executor.map submits one task per URL before it returns
ThrSubmit ==
    /\ thrPc = "submit"
    /\ futState' = [futState EXCEPT ![thrK] = "pending"]
    /\ queue' = Append(queue, thrK)
    /\ IF thrK = Len(thrUrls)
       THEN thrPc' = "collect" /\ thrK' = 1
       ELSE thrPc' = "submit" /\ thrK' = thrK + 1
    /\ UNCHANGED <<rows, web, thrUrls, futOutcome, thrAcc, thrInfo, thrFile,
                   thrRet, thrErr, poolShut, doneOrder>>

\* a free worker thread takes the next work item and starts get_song_info
WorkerStart ==
    /\ queue # << >>
    /\ futState[Head(queue)] = "pending"
    /\ Cardinality(Running) < PoolSize
    /\ futState' = [futState EXCEPT ![Head(queue)] = "running"]
    /\ queue' = Tail(queue)
    /\ UNCHANGED <<rows, web, thrPc, thrUrls, futOutcome, thrK, thrAcc,
                   thrInfo, thrFile, thrRet, thrErr, poolShut, doneOrder>>

\* a free worker thread takes a work item whose future was cancelled
WorkerSkip ==
    /\ queue # << >>
    /\ futState[Head(queue)] = "cancelled"
    /\ Cardinality(Running) < PoolSize
    /\ queue' = Tail(queue)
    /\ UNCHANGED <<rows, web, thrPc, thrUrls, futState, futOutcome, thrK,
                   thrAcc, thrInfo, thrFile, thrRet, thrErr, poolShut,
                   doneOrder>>

\* the task of position i ends: get_song_info returned or raised
WorkerFinish(i) ==
    /\ i \in DOMAIN futState
    /\ futState[i] = "running"
    /\ futState' = [futState EXCEPT ![i] = "finished"]
    /\ futOutcome' = [futOutcome EXCEPT ![i] = get_song_info(thrUrls[i])]
    /\ doneOrder' = Append(doneOrder, i)
    /\ UNCHANGED <<rows, web, thrPc, thrUrls, queue, thrK, thrAcc, thrInfo,
                   thrFile, thrRet, thrErr, poolShut>>

\* a cancel that also takes the futures of running tasks
CancelStartedFrom(k) ==
    [i \in DOMAIN futState |->
        IF i > k /\ futState[i] \in {"pending", "running"}
        THEN "cancelled" ELSE futState[i]]

\* Future.cancel() on every future the iterator of map still holds
CancelFrom(k) ==
    [i \in DOMAIN futState |->
        IF i > k /\ futState[i] = "pending" THEN "cancelled" ELSE futState[i]]

\* an iteration that takes the results as the tasks end (as_completed)
ThrCollectAsCompleted ==
    /\ thrPc = "collect"
    /\ thrK <= Len(thrUrls)
    /\ Len(doneOrder) >= thrK
    /\ LET o == futOutcome[doneOrder[thrK]]
       IN IF o.exc = ""
          THEN /\ thrAcc' = Append(thrAcc, o.value)
               /\ thrK' = thrK + 1
               /\ UNCHANGED <<thrPc, thrErr, futState>>
          ELSE /\ thrAcc' = << >>
               /\ thrErr' = <<o>>
               /\ futState' = [i \in DOMAIN futState |->
                                 IF futState[i] = "pending" THEN "cancelled"
                                 ELSE futState[i]]
               /\ thrPc' = "shutdown"
               /\ UNCHANGED thrK
    /\ UNCHANGED <<rows, web, thrUrls, futOutcome, queue, thrInfo, thrFile,
                   thrRet, poolShut, doneOrder>>

\* an iteration that passes over a failed task
ThrCollectSkipFailed ==
    /\ thrPc = "collect"
    /\ thrK <= Len(thrUrls)
    /\ futState[thrK] = "finished"
    /\ thrAcc' = IF futOutcome[thrK].exc = ""
                 THEN Append(thrAcc, futOutcome[thrK].value) ELSE thrAcc
    /\ thrK' = thrK + 1
    /\ UNCHANGED <<rows, web, thrPc, thrErr, futState, thrUrls, futOutcome,
                   queue, thrInfo, thrFile, thrRet, poolShut, doneOrder>>

\* line 211, one iteration: the iterator of map yields the result of the
\* future of position thrK, or re-raises its exception after cancelling
\* the futures behind it
ThrCollect ==
    /\ thrPc = "collect"
    /\ thrK <= Len(thrUrls)
    /\ futState[thrK] = "finished"
    /\ IF futOutcome[thrK].exc = ""
       THEN /\ thrAcc' = Append(thrAcc, futOutcome[thrK].value)
            /\ thrK' = thrK + 1
            /\ UNCHANGED <<thrPc, thrErr, futState>>
       ELSE /\ thrAcc' = << >>
            /\ thrErr' = <<futOutcome[thrK]>>
            /\ futState' = CancelFrom(thrK)
            /\ thrPc' = "shutdown"
            /\ UNCHANGED thrK
    /\ UNCHANGED <<rows, web, thrUrls, futOutcome, queue, thrInfo, thrFile,
                   thrRet, poolShut, doneOrder>>

\* leaving the with block with shutdown(wait=False): no join
ThrShutdownNoWait ==
    /\ \/ thrPc = "shutdown"
       \/ thrPc = "collect" /\ thrK > Len(thrUrls)
    /\ poolShut' = FALSE
    /\ IF thrErr = << >>
       THEN thrInfo' = <<thrAcc>> /\ thrPc' = "write"
       ELSE thrInfo' = thrInfo /\ thrPc' = "failed"
    /\ UNCHANGED <<rows, web, thrUrls, futState, futOutcome, queue, thrK,
                   thrAcc, thrFile, thrRet, thrErr, doneOrder>>

\* lines 208-211: leaving the with block, normally (songs_info bound) or
\* with the exception; Executor.__exit__ is shutdown(wait=True)
ThrShutdown ==
    /\ \/ thrPc = "shutdown"
       \/ thrPc = "collect" /\ thrK > Len(thrUrls)
    /\ queue = << >>
    /\ Running = {}
    /\ poolShut' = TRUE
    /\ IF thrErr = << >>
       THEN thrInfo' = <<thrAcc>> /\ thrPc' = "write"
       ELSE thrInfo' = thrInfo /\ thrPc' = "failed"
    /\ UNCHANGED <<rows, web, thrUrls, futState, futOutcome, queue, thrK,
                   thrAcc, thrFile, thrRet, thrErr, doneOrder>>

\* lines 213-216
ThrWrite ==
    /\ thrPc = "write"
    /\ thrFile' = WriteFile(thrFile, thrInfo[1])
    /\ thrRet' = <<Len(thrInfo[1])>>
    /\ thrPc' = "done"
    /\ UNCHANGED <<rows, web, thrUrls, futState, futOutcome, queue, thrK,
                   thrAcc, thrInfo, thrErr, poolShut, doneOrder>>

(***************************************************************************)
(* The two exports run on the same catalog page and the same site          *)
(***************************************************************************)
IdleLyric ==
    /\ parrafos = << >>
    /\ breaklines = FALSE
    /\ fn = "div"
    /\ lyric = << >>
    /\ idx = 1
    /\ lpc = "idle"

Init ==
    /\ rows \in SeqsUpTo(Rows, MaxRows)
    /\ web \in [SongURLs -> PageKinds]
    /\ seqPc = "list"
    /\ seqUrls = << >>
    /\ seqAcc = << >>
    /\ seqInfo = << >>
    /\ seqFile = OldFile
    /\ seqRet = << >>
    /\ seqErr = << >>
    /\ thrPc = "list"
    /\ thrUrls = << >>
    /\ futState = << >>
    /\ futOutcome = << >>
    /\ queue = << >>
    /\ thrK = 1
    /\ thrAcc = << >>
    /\ thrInfo = << >>
    /\ thrFile = OldFile
    /\ thrRet = << >>
    /\ thrErr = << >>
    /\ poolShut = FALSE
    /\ doneOrder = << >>
    /\ IdleLyric

Next ==
    \/ SeqList /\ UNCHANGED thrVars /\ UNCHANGED lyricVars
    \/ SeqCollect /\ UNCHANGED thrVars /\ UNCHANGED lyricVars
    \/ SeqWrite /\ UNCHANGED thrVars /\ UNCHANGED lyricVars
    \/ ThrList /\ UNCHANGED seqVars /\ UNCHANGED lyricVars
    \/ ThrSubmit /\ UNCHANGED seqVars /\ UNCHANGED lyricVars
    \/ WorkerStart /\ UNCHANGED seqVars /\ UNCHANGED lyricVars
    \/ WorkerSkip /\ UNCHANGED seqVars /\ UNCHANGED lyricVars
    \/ \E i \in 1..(MaxRows + 1) :
           WorkerFinish(i) /\ UNCHANGED seqVars /\ UNCHANGED lyricVars
    \/ ThrCollect /\ UNCHANGED seqVars /\ UNCHANGED lyricVars
    \/ ThrShutdown /\ UNCHANGED seqVars /\ UNCHANGED lyricVars
    \/ ThrWrite /\ UNCHANGED seqVars /\ UNCHANGED lyricVars

Spec == Init /\ [][Next]_vars

(***************************************************************************)
(* The normalizers, one loop iteration per step                            *)
(***************************************************************************)
\* The end of a <p> element in the token stream of a div.
EndP == "</p>"

\* div.find_all('p') on a stream of tokens in which every <p> is closed:
\* the children of each <p>, in document order
RECURSIVE FindAllP(_, _)
FindAllP(tokens, open) ==
    IF tokens = << >> THEN << >>
    ELSE IF Head(tokens) = EndP THEN <<open>> \o FindAllP(Tail(tokens), << >>)
    ELSE FindAllP(Tail(tokens), Append(open, Head(tokens)))

\* the token streams of at most MaxTokens tokens in which every <p> is closed
Divs == {t \in SeqsUpTo(Alphabet \cup {BR, EndP}, MaxTokens) :
            t = << >> \/ t[Len(t)] = EndP}

\* <p>HelloWorld</p>
HelloWorld == << <<"H", "e", "l", "l", "o", "W", "o", "r", "l", "d">> >>

\* <p>Line one<br>cont.</p><p>Line two</p>
TwoLines == << <<"L", "i", "n", "e", " ", "o", "n", "e", BR,
                 "c", "o", "n", "t", ".">>,
               <<"L", "i", "n", "e", " ", "t", "w", "o">> >>

Fragments == {FindAllP(t, << >>) : t \in Divs} \cup {HelloWorld, TwoLines}

\* lines 97-104 and 110-116: one iteration of the loop of get_lyrics_from_div
DivStep ==
    /\ fn = "div"
    /\ lpc = "loop"
    /\ idx <= Len(parrafos)
    /\ lyric' = IF breaklines THEN BreaklinesBody(lyric, parrafos[idx])
                ELSE FlattenDivBody(lyric, parrafos[idx])
    /\ idx' = idx + 1
    /\ UNCHANGED <<parrafos, breaklines, fn, lpc>>

\* lines 106 and 118: after the loop of get_lyrics_from_div
DivReturn ==
    /\ fn = "div"
    /\ lpc = "loop"
    /\ idx > Len(parrafos)
    /\ lyric' = IF breaklines THEN TrimLastTwo(lyric) ELSE lyric
    /\ lpc' = "returned"
    /\ UNCHANGED <<parrafos, breaklines, fn, idx>>

\* lines 55-62 and 68-76: one iteration of the loop of get_lyrics_from_url
UrlStep ==
    /\ fn = "url"
    /\ lpc = "loop"
    /\ idx <= Len(parrafos)
    /\ lyric' = IF breaklines THEN BreaklinesBody(lyric, parrafos[idx])
                ELSE FlattenUrlBody(lyric, parrafos[idx])
    /\ idx' = idx + 1
    /\ UNCHANGED <<parrafos, breaklines, fn, lpc>>

\* lines 64 and 78: after the loop of get_lyrics_from_url
UrlReturn ==
    /\ fn = "url"
    /\ lpc = "loop"
    /\ idx > Len(parrafos)
    /\ lyric' = IF breaklines THEN TrimLastTwo(lyric) ELSE lyric
    /\ lpc' = "returned"
    /\ UNCHANGED <<parrafos, breaklines, fn, idx>>

IdleExport ==
    /\ rows = << >>
    /\ web = [u \in SongURLs |-> "ok"]
    /\ seqPc = "idle"
    /\ seqUrls = << >>
    /\ seqAcc = << >>
    /\ seqInfo = << >>
    /\ seqFile = OldFile
    /\ seqRet = << >>
    /\ seqErr = << >>
    /\ thrPc = "idle"
    /\ thrUrls = << >>
    /\ futState = << >>
    /\ futOutcome = << >>
    /\ queue = << >>
    /\ thrK = 1
    /\ thrAcc = << >>
    /\ thrInfo = << >>
    /\ thrFile = OldFile
    /\ thrRet = << >>
    /\ thrErr = << >>
    /\ poolShut = FALSE
    /\ doneOrder = << >>

InitLyrics ==
    /\ parrafos \in Fragments
    /\ breaklines \in BOOLEAN
    /\ fn \in {"div", "url"}
    /\ lyric = << >>
    /\ idx = 1
    /\ lpc = "loop"
    /\ IdleExport

NextLyrics ==
    \/ DivStep /\ UNCHANGED exportVars
    \/ DivReturn /\ UNCHANGED exportVars
    \/ UrlStep /\ UNCHANGED exportVars
    \/ UrlReturn /\ UNCHANGED exportVars

SpecLyrics == InitLyrics /\ [][NextLyrics]_vars

(***************************************************************************)
(* Properties of the exports (checked under Spec)                          *)
(***************************************************************************)
Failing(o) == o.exc # ""

HasAttr(row) == "shareurl" \in DOMAIN row

\* the tasks did not end in the order of their positions
OutOfOrder == \E a, b \in DOMAIN doneOrder : a < b /\ doneOrder[a] > doneOrder[b]

\* C1: when scrap_songs_threading returns, the file holds one record per
\* URL of songs_urls, the record at position i has the URL at position i,
\* and the returned count is the length of the list, whatever the order in
\* which the tasks ended.
ThreadingKeepsOrder ==
    thrPc = "done" =>
        /\ Len(thrFile.content) = Len(thrUrls)
        /\ \A i \in 1..Len(thrUrls) : thrFile.content[i].url = thrUrls[i]
        /\ thrRet = <<Len(thrUrls)>>

\* three URLs, the first and the last equal, and the second task ended
\* before the first
ThreadingKeepsOrderWitness ==
    /\ thrPc = "done"
    /\ Len(thrUrls) = 3
    /\ thrUrls[1] = thrUrls[3]
    /\ thrUrls[1] # thrUrls[2]
    /\ doneOrder[1] = 2

\* C2: when both exports succeed on the same catalog page and the same
\* site, they bind the same list to songs_info, write the same content and
\* return the same count.
ModesAgree ==
    (seqPc = "done" /\ thrPc = "done") =>
        /\ seqInfo = thrInfo
        /\ seqFile.content = thrFile.content
        /\ seqRet = thrRet

\* both succeeded on two different songs whose tasks ended out of order
ModesAgreeWitness ==
    /\ seqPc = "done"
    /\ thrPc = "done"
    /\ Len(thrUrls) >= 2
    /\ thrUrls[1] # thrUrls[2]
    /\ OutOfOrder

\* C3: once the extraction of a song has failed, in either export, no count
\* is returned, songs_info is never bound, the output file is not opened
\* and keeps its previous content, and the export ends with that exception.
FailureAbortsExport ==
    /\ seqErr # << >> =>
          /\ seqPc = "failed"
          /\ Failing(seqErr[1])
    /\ (seqPc = "failed" \/ \E i \in DOMAIN seqUrls : Failing(get_song_info(seqUrls[i]))) =>
          /\ seqPc \notin {"done"}
          /\ seqRet = << >>
          /\ seqInfo = << >>
          /\ seqFile = OldFile
    /\ (\E i \in DOMAIN futOutcome : Failing(futOutcome[i])) =>
          /\ thrPc \notin {"write", "done"}
          /\ thrRet = << >>
          /\ thrInfo = << >>
          /\ thrFile = OldFile
    /\ thrPc = "failed" =>
          /\ thrErr # << >>
          /\ Failing(thrErr[1])
          /\ thrAcc = << >>

\* both exports failed although a task of the pool had returned a record
FailureAbortsExportWitness ==
    /\ seqPc = "failed"
    /\ thrPc = "failed"
    /\ seqFile = OldFile
    /\ thrFile = OldFile
    /\ \E i \in DOMAIN futOutcome :
          futState[i] = "finished" /\ ~Failing(futOutcome[i])

\* C4: the file of scrap_songs_threading changes only in a step of the
\* orchestrating thread at lines 213-214, it has not been opened before,
\* the pool has shut down, no task runs or waits, every task has ended, and
\* the step changes no task.
WriteOnceAfterPool ==
    [][thrFile' # thrFile =>
          /\ thrPc = "write"
          /\ thrFile.opens = 0
          /\ thrFile'.opens = 1
          /\ poolShut
          /\ Running = {}
          /\ queue = << >>
          /\ \A i \in DOMAIN futState : futState[i] = "finished"
          /\ futState' = futState
          /\ futOutcome' = futOutcome]_vars

\* the file was written after three tasks that ended out of order
WriteOnceAfterPoolWitness ==
    /\ thrPc = "done"
    /\ thrFile.opens = 1
    /\ Len(thrUrls) = 3
    /\ OutOfOrder

\* C5 as stated: when the thread-pool export fails, the task of every URL
\* has run to completion or to failure.
EveryTaskRan ==
    thrPc = "failed" => \A i \in DOMAIN futState : futState[i] = "finished"

\* C5 amended: a task that has started is never cancelled or aborted and
\* has ended when the export fails; only tasks behind the failed one that
\* had not started are cancelled, and those never run.
StartedTasksRun ==
    /\ [](thrPc = "failed" =>
            /\ Running = {}
            /\ Failing(futOutcome[thrK])
            /\ \A i \in DOMAIN futState :
                  \/ futState[i] = "finished"
                  \/ /\ futState[i] = "cancelled"
                     /\ i > thrK
                     /\ futOutcome[i] = NoOutcome)
    /\ [][\A i \in DOMAIN futState :
            /\ futState[i] = "running" => futState'[i] \in {"running", "finished"}
            /\ futState[i] = "cancelled" => futState'[i] = "cancelled"]_vars

\* the first task failed, the second ended after that failure was met,
\* the third was cancelled in the queue
StartedTasksRunWitness ==
    /\ thrPc = "failed"
    /\ Len(thrUrls) = 3
    /\ thrK = 1
    /\ futState[2] = "finished"
    /\ futState[3] = "cancelled"
    /\ doneOrder = <<1, 2>>

\* the exception comes from a lookup in the markup (lines 137 to 141)
IsLookupError(o) == o.line \in 137..141

\* the exception comes from requests.get (line 133)
IsFetchError(o) == o.line = 133

\* C6 as stated: the extraction of a position holding the placeholder
\* fails with a lookup error.
PlaceholderLookupError ==
    \A i \in DOMAIN futOutcome :
        (thrUrls[i] = Null /\ futState[i] = "finished") =>
            IsLookupError(futOutcome[i])

\* the list both exports get from get_songs_list: one entry per row, in
\* document order, the placeholder where the attribute is absent
ListedWithPlaceholders(urls) ==
    /\ Len(urls) = Len(rows)
    /\ \A i \in 1..Len(rows) :
          urls[i] = IF HasAttr(rows[i]) THEN rows[i].shareurl ELSE Null

\* C6 amended: get_songs_list returns one entry per row in document order
\* with the placeholder at the rows without the attribute; the extraction
\* of such a position fails in requests.get (MissingSchema, line 133),
\* before any lookup in the markup; an export whose list holds a
\* placeholder never writes the file and never returns a count.
PlaceholderFetchError ==
    /\ seqPc # "list" => ListedWithPlaceholders(seqUrls)
    /\ thrPc # "list" => ListedWithPlaceholders(thrUrls)
    /\ \A i \in DOMAIN futOutcome :
          (thrUrls[i] = Null /\ futState[i] = "finished") =>
              /\ futOutcome[i].exc = "MissingSchema"
              /\ IsFetchError(futOutcome[i])
    /\ \A i \in DOMAIN seqUrls :
          (seqUrls[i] = Null /\ seqPc = "failed"
             /\ \A j \in 1..(i - 1) : ~Failing(get_song_info(seqUrls[j]))) =>
              /\ seqErr[1].exc = "MissingSchema"
              /\ IsFetchError(seqErr[1])
    /\ (\E i \in DOMAIN rows : ~HasAttr(rows[i])) =>
          /\ seqPc # "done"
          /\ thrPc \notin {"write", "done"}
          /\ seqFile = OldFile /\ seqRet = << >>
          /\ thrFile = OldFile /\ thrRet = << >>

\* the second of three rows lacks the attribute and both exports failed
\* with the exception of that position
PlaceholderFetchErrorWitness ==
    /\ Len(rows) = 3
    /\ HasAttr(rows[1]) /\ ~HasAttr(rows[2]) /\ HasAttr(rows[3])
    /\ thrUrls = <<rows[1].shareurl, Null, rows[3].shareurl>>
    /\ seqPc = "failed" /\ seqErr[1].exc = "MissingSchema"
    /\ thrPc = "failed" /\ thrErr[1].exc = "MissingSchema"

(***************************************************************************)
(* Properties of the normalizers (checked under SpecLyrics)                *)
(***************************************************************************)
NoDoubleSpace(s) ==
    \A i \in 1..(Len(s) - 1) : ~(s[i] = " " /\ s[i + 1] = " ")

Returned(f, b) == fn = f /\ breaklines = b /\ lpc = "returned"

\* C7: the flattened result of get_lyrics_from_div never holds two
\* consecutive spaces.
DivFlatNoDoubleSpace ==
    Returned("div", FALSE) => NoDoubleSpace(lyric)

\* a paragraph that ends in a run of spaces, then an empty paragraph
DivFlatNoDoubleSpaceWitness ==
    /\ Returned("div", FALSE)
    /\ parrafos = << <<" ", " ">>, << >> >>
    /\ lyric = <<" ">>

\* an uppercase letter of t that directly follows a word character
NeedsSpace(t, i) == i > 1 /\ t[i] \in Upper /\ IsWord(t[i - 1])

\* t with a space in front of those letters, and a space behind it
Spaced(t) ==
    Concat([i \in 1..Len(t) |->
              IF NeedsSpace(t, i) THEN <<" ", t[i]>> ELSE <<t[i]>>]) \o <<" ">>

\* the first n characters of s without the spaces that follow a space
RECURSIVE Squeezed(_, _)
Squeezed(s, n) ==
    IF n = 0 THEN << >>
    ELSE Squeezed(s, n - 1)
            \o (IF n > 1 /\ s[n] = " " /\ s[n - 1] = " " THEN << >> ELSE <<s[n]>>)

HelloWorldFlat ==
    <<"H", "e", "l", "l", "o", " ", "W", "o", "r", "l", "d", " ">>

\* C8: for one paragraph of text t the flattened result of
\* get_lyrics_from_div is t with one space in front of every uppercase
\* letter that directly follows a word character, one space behind it, and
\* runs of spaces collapsed; HelloWorld gives "Hello World ".
DivFlatOneParagraph ==
    (Returned("div", FALSE) /\ Len(parrafos) = 1) =>
        /\ lyric = Squeezed(Spaced(Text(parrafos[1])),
                            Len(Spaced(Text(parrafos[1]))))
        /\ parrafos = HelloWorld => lyric = HelloWorldFlat

DivFlatOneParagraphWitness ==
    /\ Returned("div", FALSE)
    /\ parrafos = HelloWorld
    /\ lyric = HelloWorldFlat

\* "Line one\ncont.\n\nLine two\n"
TwoLinesOneNewline ==
    <<"L", "i", "n", "e", " ", "o", "n", "e", "\n", "c", "o", "n", "t", ".",
      "\n", "\n", "L", "i", "n", "e", " ", "t", "w", "o", "\n">>

\* C9 as stated: the line-preserving result for the two paragraphs is
\* "Line one\ncont.\n\nLine two\n" without its last two characters.
TwoLinesTrimmedFromOneNewline ==
    (Returned("div", TRUE) /\ parrafos = TwoLines) =>
        lyric = SubSeq(TwoLinesOneNewline, 1, Len(TwoLinesOneNewline) - 2)

\* C9 amended: the concatenation is "Line one\ncont.\n\nLine two\n\n" and
\* the result is that string without its last two characters, which is
\* "Line one\ncont.\n\nLine two".
TwoLinesTrimmed ==
    (Returned("div", TRUE) /\ parrafos = TwoLines) =>
        /\ lyric \o <<"\n", "\n">> = TwoLinesOneNewline \o <<"\n">>
        /\ lyric = SubSeq(TwoLinesOneNewline, 1, Len(TwoLinesOneNewline) - 1)

TwoLinesTrimmedWitness ==
    /\ Returned("div", TRUE)
    /\ parrafos = TwoLines
    /\ Len(lyric) = 24
    /\ lyric[24] = "o"

\* C10: the flattened result of get_lyrics_from_url never holds two
\* consecutive spaces and equals that of get_lyrics_from_div on the same
\* paragraphs.
UrlFlatNoDoubleSpace ==
    Returned("url", FALSE) =>
        /\ NoDoubleSpace(lyric)
        /\ lyric = get_lyrics_from_div(parrafos, FALSE)

====
